---- MODULE Spec2Model ----
(***************************************************************************)
(* A model of the kometa-overseerr-bridge shim (src/app/app.py).           *)
(*                                                                         *)
(* The shim is a stateless HTTP service.  Its process-wide configuration   *)
(* is read once from the environment; every inbound request is handled by  *)
(* one coroutine whose steps are separated by its awaits (reading the      *)
(* body, the metadata-service calls, the media-request-service call).      *)
(* One request is followed from reception to its response; the outbound    *)
(* calls it makes are recorded in the history variable net.                *)
(***************************************************************************)
EXTENDS Integers, Sequences, FiniteSets, TLC

(***************************************************************************)
(* Bounds of the model.                                                    *)
(***************************************************************************)
\* Longest item list an import body carries.
MaxItems == 2

(***************************************************************************)
(* JSON values as Python sees them after request.json().                   *)
(* Strings are sequences of one-character strings so that int() and the    *)
(* term parsing can be computed character by character.                    *)
(***************************************************************************)
JNull == [t |-> "null"]
JBool(b) == [t |-> "bool", b |-> b]
JInt(n) == [t |-> "int", n |-> n]
JStr(s) == [t |-> "str", s |-> s]
JList(l) == [t |-> "list", l |-> l]
JDict(d) == [t |-> "dict", d |-> d]

\* A one-entry mapping; mappings are joined with @@.
KV(k, v) == k :> v

\* Python truthiness: None, False, 0, "", [] and {} are falsy.
Truthy(v) ==
    CASE v.t = "null" -> FALSE
      [] v.t = "bool" -> v.b
      [] v.t = "int" -> v.n # 0
      [] v.t = "str" -> Len(v.s) > 0
      [] v.t = "list" -> Len(v.l) > 0
      [] v.t = "dict" -> DOMAIN v.d # {}

\* Python's `a or b`: a when a is truthy, otherwise b (whatever b is).
PyOr(a, b) == IF Truthy(a) THEN a ELSE b

\* dict.get(key): the value, or None when the key is absent.
Get(v, k) == IF k \in DOMAIN v.d THEN v.d[k] ELSE JNull

Digits == <<"0", "1", "2", "3", "4", "5", "6", "7", "8", "9">>

IsDigit(c) == \E k \in 1..Len(Digits) : Digits[k] = c

DigitVal(c) == (CHOOSE k \in 1..Len(Digits) : Digits[k] = c) - 1

RECURSIVE ParseDigits(_)
ParseDigits(s) ==
    IF Len(s) = 0 THEN 0
    ELSE ParseDigits(SubSeq(s, 1, Len(s) - 1)) * 10 + DigitVal(s[Len(s)])

\* Python int(v): an int is itself, a bool is 0 or 1, a string is parsed as
\* decimal digits; anything else (and a string that is not a number) raises.
\* The result is [ok |-> TRUE, n |-> value] or [ok |-> FALSE] for the raise.
PyInt(v) ==
    CASE v.t = "int" -> [ok |-> TRUE, n |-> v.n]
      [] v.t = "bool" -> [ok |-> TRUE, n |-> IF v.b THEN 1 ELSE 0]
      [] v.t = "str" ->
            IF Len(v.s) > 0 /\ \A k \in 1..Len(v.s) : IsDigit(v.s[k])
            THEN [ok |-> TRUE, n |-> ParseDigits(v.s)]
            ELSE [ok |-> FALSE]
      [] OTHER -> [ok |-> FALSE]

(***************************************************************************)
(* State.                                                                  *)
(***************************************************************************)
VARIABLES
    \* process configuration, read once at import time (app.py 10-19)
    MODE, SHIM_API_KEY, OVERSEERR_URL, OVERSEERR_API_KEY, OVERSEERR_USER_ID,
    TMDB_API_KEY, DEFAULT_TV_SEASONS, DRY_RUN,
    \* the request being handled: route, credentials, lookup term, JSON body
    endpoint, x_api_key, apikey, term, body,
    \* the handler's position and locals
    pc, items, idx, results, tvdb_id, tmdb_id,
    \* history: the outbound calls of this request, in the order made; what
    \* the last call of overseerr_request returned or raised; and the last
    \* call of tmdb_from_tvdb (its argument, the reply it got, its outcome)
    net, fwd, bridged,
    \* the HTTP response, once the handler has answered
    response

config == <<MODE, SHIM_API_KEY, OVERSEERR_URL, OVERSEERR_API_KEY,
            OVERSEERR_USER_ID, TMDB_API_KEY, DEFAULT_TV_SEASONS, DRY_RUN>>
request == <<endpoint, x_api_key, apikey, term, body>>
locals == <<items, idx, results, tvdb_id, tmdb_id>>
history == <<net, fwd, bridged>>
vars == <<config, request, pc, locals, history, response>>

\* Optional[str] arguments: the absent value.
None == "<None>"

\* The shared secret a deployment configures, and a value that is not it.
Secret == "s3cret"
Wrong == "wrong"

(***************************************************************************)
(* require_api_key: TRUE when it raises HTTPException(401).                *)
(***************************************************************************)
StrOr(a, b) == IF a # None /\ a # "" THEN a ELSE b

\* A gate that reads the header only and never the apikey parameter.
require_api_key_header_only(hdr, qry) ==
    SHIM_API_KEY # "" /\ hdr # SHIM_API_KEY

require_api_key(hdr, qry) ==
    LET provided == StrOr(hdr, qry)
    IN  SHIM_API_KEY # "" /\ provided # SHIM_API_KEY

(***************************************************************************)
(* overseerr_request, up to its await.                                     *)
(***************************************************************************)
OverseerrUnconfigured == OVERSEERR_URL = "" \/ OVERSEERR_API_KEY = ""

SeasonsAll == JStr(<<"a", "l", "l">>)
SeasonsFirst == JList(<<JInt(1)>>)

\* A body that carries the seasons field whatever the media type.
PayloadSeasonsForAll(mtype, id) ==
    LET base == [mediaType |-> mtype, mediaId |-> id, userId |-> OVERSEERR_USER_ID]
    IN  IF DEFAULT_TV_SEASONS = "all"
        THEN base @@ KV("seasons", SeasonsAll)
        ELSE IF DEFAULT_TV_SEASONS = "first"
        THEN base @@ KV("seasons", SeasonsFirst)
        ELSE base

\* The request body built at app.py 32-42.
Payload(mtype, id) ==
    LET base == [mediaType |-> mtype, mediaId |-> id, userId |-> OVERSEERR_USER_ID]
    IN  IF mtype = "tv" /\ DEFAULT_TV_SEASONS = "all"
        THEN base @@ KV("seasons", SeasonsAll)
        ELSE IF mtype = "tv" /\ DEFAULT_TV_SEASONS = "first"
        THEN base @@ KV("seasons", SeasonsFirst)
        ELSE base

(***************************************************************************)
(* Payload normalisation of the import endpoints.                          *)
(***************************************************************************)
MovieWrapperKeys == <<"movies", "movie", "importListMovies">>
SeriesWrapperKeys == <<"series", "shows", "importListSeries", "importListItems">>

\* body.get(k1) or body.get(k2) or ... or []
RECURSIVE FirstTruthy(_, _)
FirstTruthy(b, keys) ==
    IF keys = <<>> THEN JList(<<>>)
    ELSE PyOr(Get(b, Head(keys)), FirstTruthy(b, Tail(keys)))

\* A normaliser that consults the first wrapper key only.
NormalizeItemsFirstKey(b, keys) ==
    LET wrapped == FirstTruthy(b, <<Head(keys)>>)
        chosen == IF b.t = "dict"
                  THEN (IF ~Truthy(wrapped) THEN JList(<<b>>) ELSE wrapped)
                  ELSE b
    IN  IF chosen.t # "list" THEN <<chosen>> ELSE chosen.l

\* app.py 190-199 and 307-320: the sequence the item loop runs over.
NormalizeItems(b, keys) ==
    LET wrapped == FirstTruthy(b, keys)
        chosen == IF b.t = "dict"
                  THEN (IF ~Truthy(wrapped) THEN JList(<<b>>) ELSE wrapped)
                  ELSE b
    IN  IF chosen.t # "list" THEN <<chosen>> ELSE chosen.l

\* app.py 203-208 and 324-330: the identifier of one item, None if not found.
ExtractId(it, k1, k2, nest) ==
    IF it.t # "dict" THEN JNull
    ELSE LET direct == PyOr(Get(it, k1), Get(it, k2))
         IN  IF direct.t = "null" /\ Get(it, nest).t = "dict"
             THEN PyOr(Get(Get(it, nest), k1), Get(Get(it, nest), k2))
             ELSE direct

IsMovieEndpoint(e) == e \in {"movie_import", "add_movie", "movie_lookup", "list_movies"}

WrapperKeysOf(e) == IF e = "movie_import" THEN MovieWrapperKeys ELSE SeriesWrapperKeys

ItemsOf(e, b) == NormalizeItems(b, WrapperKeysOf(e))

IdOf(e, it) ==
    IF IsMovieEndpoint(e) THEN ExtractId(it, "tmdbId", "tmdb_id", "movie")
    ELSE ExtractId(it, "tvdbId", "tvdb_id", "series")

(***************************************************************************)
(* The two outbound coroutines, split at their await.                      *)
(* A reply of a collaborator is [kind |-> "http", status, ...] or          *)
(* [kind |-> "error"] for a transport failure (httpx raises).              *)
(***************************************************************************)
Is2xx(status) == 200 <= status /\ status < 300

\* A forwarder that never looks at DRY_RUN.
overseerr_request_always_posts(mtype, id) ==
    IF OverseerrUnconfigured
    THEN [kind |-> "raise", exc |-> "HTTPException", status |-> 500]
    ELSE [kind |-> "await", payload |-> Payload(mtype, id)]

\* overseerr_request before its await (app.py 29-47): it raises, returns the
\* dry-run echo, or goes on to POST the payload.
overseerr_request_sync(mtype, id) ==
    IF OverseerrUnconfigured
    THEN [kind |-> "raise", exc |-> "HTTPException", status |-> 500]
    ELSE IF DRY_RUN
    THEN [kind |-> "return",
          value |-> [dry_run |-> TRUE, would_request |-> Payload(mtype, id)]]
    ELSE [kind |-> "await", payload |-> Payload(mtype, id)]

\* overseerr_request after its await (app.py 49-55).
overseerr_request_resume(reply) ==
    IF reply.kind = "error"
    THEN [kind |-> "raise", exc |-> "TransportError", status |-> 0]
    ELSE IF Is2xx(reply.status)
    THEN [kind |-> "return",
          value |-> IF reply.text THEN [json |-> TRUE] ELSE [ok |-> TRUE]]
    ELSE [kind |-> "raise", exc |-> "HTTPException", status |-> 502]

\* tmdb_from_tvdb before its await (app.py 59-66).
tmdb_from_tvdb_sync(id) ==
    IF TMDB_API_KEY = ""
    THEN [kind |-> "return", value |-> JNull]
    ELSE [kind |-> "await", id |-> id]

\* tmdb_from_tvdb after its await (app.py 66-73): raise_for_status raises on
\* every 4xx and 5xx answer, 404 included.
tmdb_from_tvdb_resume(reply) ==
    IF reply.kind = "error"
    THEN [kind |-> "raise", exc |-> "TransportError"]
    ELSE IF reply.status >= 400
    THEN [kind |-> "raise", exc |-> "HTTPStatusError"]
    ELSE IF reply.tv_results = <<>>
    THEN [kind |-> "return", value |-> JNull]
    ELSE [kind |-> "return", value |-> JInt(reply.tv_results[1])]

(***************************************************************************)
(* Lookup terms ("tmdb:27205"): lower(), startswith(), split(":", 1).      *)
(***************************************************************************)
UpperLower == <<<<"T", "t">>, <<"M", "m">>, <<"D", "d">>, <<"B", "b">>, <<"V", "v">>>>

LowerChar(c) ==
    IF \E k \in 1..Len(UpperLower) : UpperLower[k][1] = c
    THEN UpperLower[CHOOSE k \in 1..Len(UpperLower) : UpperLower[k][1] = c][2]
    ELSE c

Lower(s) == [k \in 1..Len(s) |-> LowerChar(s[k])]

StartsWith(s, prefix) ==
    Len(s) >= Len(prefix) /\ SubSeq(s, 1, Len(prefix)) = prefix

\* term.split(":", 1)[1]: what follows the first colon.
AfterColon(s) ==
    LET first == CHOOSE k \in 1..Len(s) :
                    s[k] = ":" /\ \A j \in 1..(k - 1) : s[j] # ":"
    IN  SubSeq(s, first + 1, Len(s))

TmdbPrefix == <<"t", "m", "d", "b", ":">>
TvdbPrefix == <<"t", "v", "d", "b", ":">>

LookupPrefix(e) == IF e = "movie_lookup" THEN TmdbPrefix ELSE TvdbPrefix

(***************************************************************************)
(* Inputs: the routes, the credentials a client sends, the bodies and the  *)
(* collaborators' replies.                                                 *)
(***************************************************************************)
\* Routes whose handler is the authorization gate and a fixed answer.
FacadeEndpoints ==
    {"status", "rootfolders", "qualityprofiles", "list_tags",
     "get_exclusions", "get_import_list_exclusions"}

ListEndpoints == {"list_movies", "list_series"}
LookupEndpoints == {"movie_lookup", "series_lookup"}
ImportEndpoints == {"movie_import", "series_import"}
AddEndpoints == {"add_movie", "add_series"}

ModeEndpoints == ListEndpoints \cup LookupEndpoints \cup ImportEndpoints \cup AddEndpoints
Endpoints == FacadeEndpoints \cup ModeEndpoints

\* The impersonation mode a mode-specific route belongs to.
\* A handler without its MODE comparison: every mode is the right one.
RequiredModeUnchecked(e) == MODE

RequiredMode(e) == IF IsMovieEndpoint(e) THEN "radarr" ELSE "sonarr"

MediaTypeOf(e) == IF IsMovieEndpoint(e) THEN "movie" ELSE "tv"

Credentials == {None, "", Secret, Wrong}

K1(e) == IF IsMovieEndpoint(e) THEN "tmdbId" ELSE "tvdbId"
K2(e) == IF IsMovieEndpoint(e) THEN "tmdb_id" ELSE "tvdb_id"
NestKey(e) == IF IsMovieEndpoint(e) THEN "movie" ELSE "series"
W1(e) == IF IsMovieEndpoint(e) THEN "movies" ELSE "series"
W2(e) == IF IsMovieEndpoint(e) THEN "movie" ELSE "shows"
W3(e) == IF IsMovieEndpoint(e) THEN "importListMovies" ELSE "importListSeries"

\* Items an import list is built from: a camel-case integer id, a snake-case
\* id sent as a string, an item without an id, an id that is not a number.
ItemGood(e) == JDict(KV(K1(e), JInt(5)))
ItemSnake(e) == JDict(KV(K2(e), JStr(<<"6">>)))
ItemNoId == JDict(KV("foo", JStr(<<"b", "a", "r">>)))
ItemBadId(e) == JDict(KV(K1(e), JStr(<<"x">>)))
ItemNested(e) == JDict(KV(NestKey(e), JDict(KV(K1(e), JInt(7)))))
ItemZeroThenSnake(e) == JDict(KV(K1(e), JInt(0)) @@ KV(K2(e), JInt(8)))

ItemPool(e) == <<ItemGood(e), ItemSnake(e), ItemNoId, ItemBadId(e)>>

\* Bodies beyond the bare lists: wrapped lists, single objects, scalars.
ShapedBodies(e) ==
    <<JDict(KV(W1(e), JList(<<ItemGood(e), ItemNoId>>))),
      JDict(KV(W2(e), JList(<<ItemSnake(e)>>))),
      JDict(KV(W1(e), JList(<<>>)) @@ KV(W3(e), JList(<<ItemGood(e)>>))),
      JDict(KV(W1(e), JInt(3)) @@ KV(W2(e), JList(<<ItemGood(e)>>))),
      JDict(KV(W1(e), JStr(<<"x">>))),
      JDict(KV(NestKey(e), JDict(KV(K1(e), JInt(7))))),
      ItemGood(e),
      ItemNoId,
      ItemZeroThenSnake(e),
      JList(<<ItemNested(e), JInt(9)>>),
      JList(<<JDict(KV(K1(e), JInt(0)))>>),
      JInt(3),
      JNull>>

\* Bodies of the single-item add routes.
AddBodies(e) ==
    <<ItemGood(e), ItemSnake(e), ItemNoId, ItemBadId(e), ItemNested(e),
      ItemZeroThenSnake(e), JList(<<ItemGood(e)>>)>>

Terms ==
    <<<<"t", "m", "d", "b", ":", "5">>,
      <<"T", "M", "D", "B", ":", "5">>,
      <<"t", "v", "d", "b", ":", "1", "2">>,
      <<"t", "m", "d", "b", ":", "x">>,
      <<"t", "v", "d", "b", ":">>,
      <<"5">>>>

\* Identifiers the metadata service may map a tvdb id to.
TmdbIds == {1396, 1399}

FindReplies ==
    {[kind |-> "http", status |-> 200, tv_results |-> <<>>],
     [kind |-> "http", status |-> 404, tv_results |-> <<>>],
     [kind |-> "http", status |-> 500, tv_results |-> <<>>],
     [kind |-> "error", status |-> 0, tv_results |-> <<>>]}
    \cup {[kind |-> "http", status |-> 200, tv_results |-> <<m>>] : m \in TmdbIds}
    \cup {[kind |-> "http", status |-> 200, tv_results |-> <<1399, 1396>>]}

PostReplies ==
    {[kind |-> "http", status |-> 201, text |-> TRUE],
     [kind |-> "http", status |-> 200, text |-> FALSE],
     [kind |-> "http", status |-> 409, text |-> TRUE],
     [kind |-> "error", status |-> 0, text |-> FALSE]}

DetailsReplies ==
    {[kind |-> "http", status |-> 200],
     [kind |-> "http", status |-> 404],
     [kind |-> "http", status |-> 500],
     [kind |-> "error", status |-> 0]}

(***************************************************************************)
(* Initial state: a configuration, and no request in progress.             *)
(***************************************************************************)
NoResponse == [status |-> 0, body |-> [kind |-> "none"]]
NoForward == [kind |-> "none"]
NoBridge == [kind |-> "none"]
NoReply == [kind |-> "none", status |-> 0, tv_results |-> <<>>]

Idle ==
    /\ endpoint = None /\ x_api_key = None /\ apikey = None
    /\ term = <<>> /\ body = JNull
    /\ pc = "idle" /\ items = <<>> /\ idx = 0 /\ results = <<>>
    /\ tvdb_id = JNull /\ tmdb_id = JNull
    /\ net = <<>> /\ fwd = NoForward /\ bridged = NoBridge
    /\ response = NoResponse

Init ==
    /\ MODE \in {"radarr", "sonarr", "lidarr"}
    /\ SHIM_API_KEY \in {"", Secret}
    /\ OVERSEERR_URL \in {"", "http://overseerr"}
    /\ OVERSEERR_API_KEY \in {"", "okey"}
    /\ OVERSEERR_USER_ID \in {1}
    /\ TMDB_API_KEY \in {"", "tkey"}
    /\ DEFAULT_TV_SEASONS \in {"all", "first", "none"}
    /\ DRY_RUN \in BOOLEAN
    /\ Idle

(***************************************************************************)
(* Steps shared by the handlers.                                           *)
(***************************************************************************)
\* The handler answers: an HTTPException or a return value becomes the response.
Respond(status, b) ==
    /\ response' = [status |-> status, body |-> b]
    /\ pc' = "done"

\* An exception no handler code catches: the framework answers 500.
Unhandled == Respond(500, [kind |-> "internal_error"])

HttpError(status, detail) == Respond(status, [kind |-> "error", detail |-> detail])

EmptyList == [kind |-> "list", n |-> 0]

\* A loop that puts each new outcome in front of the earlier ones.
PrependResult(r) ==
    /\ results' = <<r>> \o results
    /\ idx' = idx + 1
    /\ pc' = "loop"
    /\ UNCHANGED response

\* The import loop records the outcome of item idx and goes to the next item.
AppendResult(r) ==
    /\ results' = Append(results, r)
    /\ idx' = idx + 1
    /\ pc' = "loop"
    /\ UNCHANGED response

CountOk(rs) == Cardinality({k \in 1..Len(rs) : rs[k].ok})
CountFailed(rs) == Cardinality({k \in 1..Len(rs) : ~rs[k].ok})

\* app.py 221-225 and 348-352.
ImportSummary(rs) ==
    [kind |-> "import", imported |-> CountOk(rs), failed |-> CountFailed(rs),
     results |-> rs]

\* str(e) of what overseerr_request raised.
ErrorText(out) ==
    IF out.exc = "TransportError" THEN "transport error"
    ELSE IF out.status = 500 THEN "500: Overseerr not configured"
    ELSE "502: Overseerr error"

(***************************************************************************)
(* A request arrives: FastAPI binds the route, the X-Api-Key header and    *)
(* the apikey query parameter (and the term of a lookup).                  *)
(***************************************************************************)
Receive ==
    /\ pc = "idle"
    /\ \E e \in Endpoints, h \in Credentials, q \in Credentials \ {""} :
          /\ endpoint' = e
          /\ x_api_key' = h
          /\ apikey' = q
    /\ IF endpoint' \in LookupEndpoints
       THEN \E k \in 1..Len(Terms) : term' = Terms[k]
       ELSE term' = <<>>
    /\ pc' = "auth"
    /\ UNCHANGED <<config, body, locals, history, response>>

\* First statement of every handler: require_api_key(x_api_key, apikey).
\* The facade routes answer right after it.
Authorize ==
    /\ pc = "auth"
    /\ IF require_api_key(x_api_key, apikey)
       THEN HttpError(401, "Invalid API key")
       ELSE IF endpoint \in FacadeEndpoints
       THEN Respond(200, [kind |-> "facade"])
       ELSE pc' = "mode" /\ UNCHANGED response
    /\ UNCHANGED <<config, request, locals, history>>

\* Every mode-specific handler raising 404 in the other mode.
WrongModeAlways404(e) == 404

\* What a mode-specific handler does when MODE is not its mode:
\* the import and add routes raise 404, the list and lookup routes return [].
WrongModeStatus(e) == IF e \in ImportEndpoints \cup AddEndpoints THEN 404 ELSE 200

\* Second statement of the mode-specific handlers: the MODE comparison.
ModeCheck ==
    /\ pc = "mode"
    /\ IF MODE # RequiredMode(endpoint)
       THEN IF WrongModeStatus(endpoint) = 404
            THEN HttpError(404, "Not in this mode")
            ELSE Respond(200, EmptyList)
       ELSE IF endpoint \in ListEndpoints
       THEN Respond(200, EmptyList)
       ELSE IF endpoint \in LookupEndpoints
       THEN pc' = "lookup" /\ UNCHANGED response
       ELSE pc' = "body" /\ UNCHANGED response
    /\ UNCHANGED <<config, request, locals, history>>

(***************************************************************************)
(* Import and add handlers.                                                *)
(***************************************************************************)
\* body = await request.json()
ReadBody ==
    /\ pc = "body"
    /\ IF endpoint \in ImportEndpoints
       THEN \/ \E n \in 0..MaxItems :
                 \E f \in [1..n -> 1..Len(ItemPool(endpoint))] :
                     body' = JList([k \in 1..n |-> ItemPool(endpoint)[f[k]]])
            \/ \E k \in 1..Len(ShapedBodies(endpoint)) :
                 body' = ShapedBodies(endpoint)[k]
       ELSE \E k \in 1..Len(AddBodies(endpoint)) : body' = AddBodies(endpoint)[k]
    /\ pc' = "parsed"
    /\ UNCHANGED <<config, endpoint, x_api_key, apikey, term, locals, history, response>>

\* app.py 189-201 and 306-322: the item sequence, and an empty result list.
NormalizeBody ==
    /\ pc = "parsed"
    /\ endpoint \in ImportEndpoints
    /\ items' = ItemsOf(endpoint, body)
    /\ idx' = 1
    /\ results' = <<>>
    /\ pc' = "loop"
    /\ UNCHANGED <<config, request, tvdb_id, tmdb_id, history, response>>

\* The result recorded for an item without an identifier.
MissingResult(e, it) ==
    [ok |-> FALSE,
     msg |-> IF IsMovieEndpoint(e) THEN "missing tmdbId" ELSE "missing tvdbId",
     item |-> it]

\* The identifier goes to the local the handler keeps it in.
BindId(id) ==
    IF IsMovieEndpoint(endpoint)
    THEN tmdb_id' = id /\ UNCHANGED tvdb_id
    ELSE tvdb_id' = id /\ UNCHANGED tmdb_id

\* The first outbound coroutine of an item or of an add.
FirstCall(e) == IF IsMovieEndpoint(e) THEN "forward" ELSE "bridge"

\* One turn of the item loop up to its first await (app.py 202-215, 323-337).
\* int() of an identifier that is no number raises: in series_import outside
\* any try, in movie_import inside the try and again inside its except clause.
ImportItem ==
    /\ pc = "loop"
    /\ idx <= Len(items)
    /\ LET it == items[idx]
           id == IdOf(endpoint, it)
       IN  /\ BindId(id)
           /\ IF ~Truthy(id)
              THEN AppendResult(MissingResult(endpoint, it))
              ELSE IF ~PyInt(id).ok
              THEN Unhandled /\ UNCHANGED <<results, idx>>
              ELSE pc' = FirstCall(endpoint) /\ UNCHANGED <<results, idx, response>>
    /\ fwd' = NoForward
    /\ bridged' = NoBridge
    /\ UNCHANGED <<config, request, items, net>>

\* The loop is over: the handler returns the summary.
ImportReturn ==
    /\ pc = "loop"
    /\ idx > Len(items)
    /\ Respond(200, ImportSummary(results))
    /\ UNCHANGED <<config, request, locals, history>>

\* body.get(k1) or body.get(k2) of the add handlers (app.py 464, 491).
AddId(e, b) == PyOr(Get(b, K1(e)), Get(b, K2(e)))

\* add_movie and add_series from the body to the first await (app.py 463-468
\* and 490-495).  A body that is no mapping has no .get: AttributeError.
AddExtract ==
    /\ pc = "parsed"
    /\ endpoint \in AddEndpoints
    /\ IF body.t # "dict"
       THEN Unhandled /\ UNCHANGED <<tvdb_id, tmdb_id>>
       ELSE LET id == AddId(endpoint, body)
            IN  /\ BindId(id)
                /\ IF ~Truthy(id)
                   THEN HttpError(400, "Missing identifier in add payload")
                   ELSE IF ~PyInt(id).ok
                   THEN Unhandled
                   ELSE pc' = FirstCall(endpoint) /\ UNCHANGED response
    /\ UNCHANGED <<config, request, items, idx, results, history>>

(***************************************************************************)
(* The Identifier Bridge as its three callers use it.                      *)
(***************************************************************************)
\* What the caller does with what tmdb_from_tvdb returned or raised:
\* series_import (app.py 337-340), add_series (495-497), series_lookup (257-259).
\* No caller catches what it raises.
BridgeCont(out) ==
    IF out.kind = "raise"
    THEN Unhandled /\ UNCHANGED <<results, idx, tmdb_id>>
    ELSE /\ tmdb_id' = out.value
         /\ IF out.value.t # "null"
            THEN /\ pc' = IF endpoint = "series_lookup" THEN "details" ELSE "forward"
                 /\ UNCHANGED <<results, idx, response>>
            ELSE IF endpoint = "series_import"
            THEN AppendResult([ok |-> FALSE, tvdbId |-> PyInt(tvdb_id).n,
                               msg |-> "tvdb->tmdb conversion failed"])
            ELSE IF endpoint = "add_series"
            THEN HttpError(400, "Could not convert tvdbId -> tmdbId")
                 /\ UNCHANGED <<results, idx>>
            ELSE Respond(200, EmptyList) /\ UNCHANGED <<results, idx>>

\* The caller enters tmdb_from_tvdb(int(tvdb_id)); the GET is sent if a key is set.
BridgeCall ==
    /\ pc = "bridge"
    /\ LET call == tmdb_from_tvdb_sync(PyInt(tvdb_id).n)
       IN  IF call.kind = "await"
           THEN /\ net' = Append(net, [svc |-> "tmdb.find", id |-> call.id, item |-> idx])
                /\ pc' = "find_wait"
                /\ UNCHANGED <<results, idx, tmdb_id, response, bridged>>
           ELSE /\ BridgeCont(call)
                /\ bridged' = [id |-> PyInt(tvdb_id).n, reply |-> NoReply, out |-> call]
                /\ UNCHANGED net
    /\ UNCHANGED <<config, request, items, tvdb_id, fwd>>

\* The metadata service answers the find call (or the connection fails).
FindReply ==
    /\ pc = "find_wait"
    /\ \E reply \in FindReplies :
          LET out == tmdb_from_tvdb_resume(reply)
          IN  /\ BridgeCont(out)
              /\ bridged' = [id |-> PyInt(tvdb_id).n, reply |-> reply, out |-> out]
    /\ UNCHANGED <<config, request, items, tvdb_id, net, fwd>>

(***************************************************************************)
(* The Request Forwarder as its four callers use it.                       *)
(***************************************************************************)
\* The per-item result of an import after overseerr_request (app.py 216-218,
\* 344-346): `except Exception` catches whatever it raised.
ForwardResult(e, out) ==
    LET ids == IF IsMovieEndpoint(e)
               THEN [tmdbId |-> PyInt(tmdb_id).n]
               ELSE [tvdbId |-> PyInt(tvdb_id).n, tmdbId |-> PyInt(tmdb_id).n]
    IN  IF out.kind = "return"
        THEN ids @@ [ok |-> TRUE]
        ELSE ids @@ [ok |-> FALSE, msg |-> ErrorText(out)]

\* The body add_movie / add_series return (app.py 470-477, 501-508).
AddedBody(e) ==
    IF IsMovieEndpoint(e)
    THEN [kind |-> "added", tmdbId |-> PyInt(tmdb_id).n, added |-> "now"]
    ELSE [kind |-> "added", tvdbId |-> PyInt(tvdb_id).n, added |-> "now"]

\* What the caller does with what overseerr_request returned or raised.
ForwardCont(out) ==
    IF endpoint \in ImportEndpoints
    THEN AppendResult(ForwardResult(endpoint, out))
    ELSE /\ UNCHANGED <<results, idx>>
         /\ IF out.kind = "return"
            THEN Respond(200, AddedBody(endpoint))
            ELSE IF out.exc = "HTTPException"
            THEN HttpError(out.status, ErrorText(out))
            ELSE Unhandled

\* A series caller that forwards the identifier it was given, untranslated.
ForwardedUntranslated ==
    IF IsMovieEndpoint(endpoint) THEN PyInt(tmdb_id).n ELSE PyInt(tvdb_id).n

\* The identifier the caller hands to overseerr_request: int(tmdb_id).
ForwardedId == PyInt(tmdb_id).n

\* The caller enters overseerr_request(media type, int(tmdb_id)).
ForwardCall ==
    /\ pc = "forward"
    /\ LET call == overseerr_request_sync(MediaTypeOf(endpoint), ForwardedId)
       IN  IF call.kind = "await"
           THEN /\ net' = Append(net, [svc |-> "overseerr.request",
                                      payload |-> call.payload, item |-> idx])
                /\ pc' = "post_wait"
                /\ UNCHANGED <<results, idx, response, fwd>>
           ELSE ForwardCont(call) /\ fwd' = call /\ UNCHANGED net
    /\ UNCHANGED <<config, request, items, tvdb_id, tmdb_id, bridged>>

\* The media-request service answers the POST (or the connection fails).
PostReply ==
    /\ pc = "post_wait"
    /\ \E reply \in PostReplies :
          LET out == overseerr_request_resume(reply)
          IN  ForwardCont(out) /\ fwd' = out
    /\ UNCHANGED <<config, request, items, tvdb_id, tmdb_id, net, bridged>>

(***************************************************************************)
(* Lookup handlers.                                                        *)
(***************************************************************************)
\* movie_lookup / series_lookup from the mode check to the first await
\* (app.py 248-257 and 411-420).
LookupParse ==
    /\ pc = "lookup"
    /\ IF ~StartsWith(Lower(term), LookupPrefix(endpoint))
       THEN Respond(200, EmptyList) /\ UNCHANGED <<tvdb_id, tmdb_id>>
       ELSE IF TMDB_API_KEY = ""
       THEN HttpError(400, "TMDB_API_KEY is required") /\ UNCHANGED <<tvdb_id, tmdb_id>>
       ELSE LET id == PyInt(JStr(AfterColon(term)))
            IN  IF ~id.ok
                THEN Unhandled /\ UNCHANGED <<tvdb_id, tmdb_id>>
                ELSE /\ BindId(JInt(id.n))
                     /\ pc' = IF endpoint = "movie_lookup" THEN "details" ELSE "bridge"
                     /\ UNCHANGED response
    /\ UNCHANGED <<config, request, items, idx, results, history>>

\* The details GET is sent (app.py 262-266, 420-424).
DetailsCall ==
    /\ pc = "details"
    /\ net' = Append(net, [svc |-> "tmdb.details", id |-> tmdb_id.n, item |-> idx])
    /\ pc' = "details_wait"
    /\ UNCHANGED <<config, request, locals, fwd, bridged, response>>

LookupResult(e) ==
    IF e = "movie_lookup"
    THEN [kind |-> "list", n |-> 1, tmdbId |-> tmdb_id.n]
    ELSE [kind |-> "list", n |-> 1, tvdbId |-> tvdb_id.n]

\* The metadata service answers the details call (app.py 267-291, 425-446).
DetailsReply ==
    /\ pc = "details_wait"
    /\ \E reply \in DetailsReplies :
          IF reply.kind = "error" THEN Unhandled
          ELSE IF reply.status = 404 THEN Respond(200, EmptyList)
          ELSE IF reply.status >= 400 THEN Unhandled
          ELSE Respond(200, LookupResult(endpoint))
    /\ UNCHANGED <<config, request, locals, history>>

(***************************************************************************)
(* The response is sent; the service keeps nothing of the request.         *)
(***************************************************************************)
NextRequest ==
    /\ pc = "done"
    /\ endpoint' = None /\ x_api_key' = None /\ apikey' = None
    /\ term' = <<>> /\ body' = JNull
    /\ pc' = "idle" /\ items' = <<>> /\ idx' = 0 /\ results' = <<>>
    /\ tvdb_id' = JNull /\ tmdb_id' = JNull
    /\ net' = <<>> /\ fwd' = NoForward /\ bridged' = NoBridge
    /\ response' = NoResponse
    /\ UNCHANGED config

Next ==
    \/ Receive
    \/ Authorize
    \/ ModeCheck
    \/ ReadBody
    \/ NormalizeBody
    \/ ImportItem
    \/ ImportReturn
    \/ AddExtract
    \/ BridgeCall
    \/ FindReply
    \/ ForwardCall
    \/ PostReply
    \/ LookupParse
    \/ DetailsCall
    \/ DetailsReply
    \/ NextRequest

Spec == Init /\ [][Next]_vars

(***************************************************************************)
(* Properties.                                                             *)
(***************************************************************************)
\* The gate has decided: the request was answered 401 or went on.
GateDecided == pc \notin {"idle", "auth"}
Rejected401 == pc = "done" /\ response.status = 401

\* The request went past the authorization gate and the mode check.
PastGates == pc \notin {"idle", "auth", "mode"} /\ ~Rejected401

OverseerrCalls == {k \in 1..Len(net) : net[k].svc = "overseerr.request"}
FindCalls == {k \in 1..Len(net) : net[k].svc = "tmdb.find"}

\* C2 as claimed: with a secret configured a request is accepted exactly when
\* the header or the query parameter carries the secret, whatever the other
\* one carries; without a secret every request is accepted.
C2_AcceptedIffEitherMatches ==
    GateDecided =>
        (Rejected401 <=>
            (SHIM_API_KEY # "" /\ x_api_key # SHIM_API_KEY /\ apikey # SHIM_API_KEY))

\* C2 as amended: the credential that counts is the X-Api-Key header when it
\* is present and non-empty, otherwise the apikey query parameter; with a
\* secret configured the request is accepted exactly when that one credential
\* equals the secret, and rejected with 401 otherwise (so a correct apikey
\* behind a different non-empty header is rejected); without a secret every
\* request is accepted.
C2_AcceptedIffEffectiveMatches ==
    GateDecided =>
        (Rejected401 <=>
            /\ SHIM_API_KEY # ""
            /\ \/ x_api_key \notin {None, ""} /\ x_api_key # SHIM_API_KEY
               \/ x_api_key \in {None, ""} /\ apikey # SHIM_API_KEY)

\* A request accepted on the strength of its query parameter alone.
C2_Witness ==
    /\ pc = "mode"
    /\ SHIM_API_KEY = Secret
    /\ x_api_key = None
    /\ apikey = Secret

\* C4 as claimed: a mode-specific route called in the other mode (and past
\* the authorization gate) answers 404.
C4_WrongModeIs404 ==
    (/\ pc = "done"
     /\ endpoint \in ModeEndpoints
     /\ MODE # RequiredMode(endpoint)
     /\ response.status # 401)
        => response.status = 404

\* C4 as amended: called in the other mode by an authorized request, the
\* import and add routes answer 404, and the list and lookup routes answer
\* 200 with an empty list.
C4_WrongModeByRoute ==
    (/\ pc = "done"
     /\ endpoint \in ModeEndpoints
     /\ MODE # RequiredMode(endpoint)
     /\ response.status # 401)
        => IF endpoint \in ImportEndpoints \cup AddEndpoints
           THEN response.status = 404
           ELSE response.status = 200 /\ response.body = EmptyList

\* add_series answered 404 in radarr mode.
C4_Witness ==
    /\ pc = "done"
    /\ endpoint = "add_series"
    /\ MODE = "radarr"
    /\ response.status = 404

\* C10: the shared-secret check runs first and the mode check second, both
\* before any outbound call: a request with a bad credential gets no further
\* than its 401, a request for the other mode gets no further than the mode
\* check, and a 401 or a wrong-mode 404 comes with no outbound call at all.
C10_GatesBeforeOutbound ==
    LET badKey == /\ SHIM_API_KEY # ""
                  /\ (IF x_api_key \in {None, ""} THEN apikey ELSE x_api_key)
                        # SHIM_API_KEY
        otherMode == /\ endpoint \in ModeEndpoints
                     /\ MODE # (IF IsMovieEndpoint(endpoint) THEN "radarr" ELSE "sonarr")
    IN  /\ (pc # "idle" /\ badKey) => (pc = "auth" \/ Rejected401) /\ net = <<>>
        /\ (pc # "idle" /\ otherMode) => pc \in {"auth", "mode", "done"} /\ net = <<>>
        /\ response.status = 401 => net = <<>>
        /\ (endpoint \in ImportEndpoints \cup AddEndpoints /\ response.status = 404)
              => net = <<>>
        /\ net # <<>> => PastGates /\ endpoint \in ModeEndpoints

\* An import that could have reached both collaborators, rejected with 401.
C10_Witness ==
    /\ Rejected401
    /\ endpoint = "series_import"
    /\ MODE = "sonarr"
    /\ TMDB_API_KEY # ""
    /\ ~OverseerrUnconfigured
    /\ net = <<>>

\* The import handler has normalised the body and is in its item loop.
InItemLoop ==
    /\ endpoint \in ImportEndpoints
    /\ pc \in {"loop", "bridge", "find_wait", "forward", "post_wait"}

Least(S) == CHOOSE x \in S : \A y \in S : x <= y

\* C5 as claimed: a bare list yields its elements; a mapping yields the value
\* of the first wrapper key holding a non-empty sequence; a mapping in which
\* no wrapper key holds a non-empty sequence is itself the single item.
C5_FirstNonEmptySequence ==
    InItemLoop =>
        LET keys == WrapperKeysOf(endpoint)
            hits == {k \in 1..Len(keys) :
                        /\ Get(body, keys[k]).t = "list"
                        /\ Len(Get(body, keys[k]).l) > 0}
        IN  CASE body.t = "list" -> items = body.l
              [] body.t = "dict" /\ hits # {} -> items = Get(body, keys[Least(hits)]).l
              [] OTHER -> items = <<body>>

\* C5 as amended: a bare list yields its elements; a mapping yields the value
\* of the first wrapper key, in precedence order, whose value is truthy (a
\* non-empty list, string or mapping, a non-zero number, true): the elements
\* of that value when it is a list, and that value as the single item when it
\* is not; a mapping in which no wrapper key holds a truthy value is itself
\* the single item, and so is a body that is neither a list nor a mapping.
C5_FirstTruthyValue ==
    InItemLoop =>
        LET keys == WrapperKeysOf(endpoint)
            hits == {k \in 1..Len(keys) : Truthy(Get(body, keys[k]))}
            value == Get(body, keys[Least(hits)])
        IN  CASE body.t = "list" -> items = body.l
              [] body.t = "dict" /\ hits # {} ->
                    IF value.t = "list" THEN items = value.l ELSE items = <<value>>
              [] OTHER -> items = <<body>>

\* A wrapped list gave the same items as the bare list would.
C5_Witness ==
    /\ InItemLoop
    /\ body.t = "dict"
    /\ Get(body, W1(endpoint)).t = "list"
    /\ Len(items) = 2
    /\ items = ItemsOf(endpoint, Get(body, W1(endpoint)))

\* The request body overseerr_request is to send for the current item.
ExpectedRequest ==
    LET mtype == MediaTypeOf(endpoint)
        base == [mediaType |-> mtype, mediaId |-> PyInt(tmdb_id).n,
                 userId |-> OVERSEERR_USER_ID]
    IN  IF mtype = "tv" /\ DEFAULT_TV_SEASONS \in {"all", "first"}
        THEN base @@ KV("seasons", IF DEFAULT_TV_SEASONS = "all"
                                   THEN SeasonsAll ELSE SeasonsFirst)
        ELSE base

DryRunEcho == [kind |-> "return",
               value |-> [dry_run |-> TRUE, would_request |-> ExpectedRequest]]

\* C6 as claimed: with dry-run enabled every call of the forwarder does no
\* network I/O and returns the dry-run echo of the request it would send.
C6_DryRunAlwaysEchoes ==
    (DRY_RUN /\ fwd # NoForward) => (OverseerrCalls = {} /\ fwd = DryRunEcho)

\* C6 as amended: with dry-run enabled no call of the forwarder does network
\* I/O; when the media-request service is configured (URL and credential
\* both set) the call returns the dry-run echo whose body is exactly the
\* request it would have sent, and when it is not configured the call raises
\* the configuration error (500) instead of returning an echo.
C6_DryRunEchoesWhenConfigured ==
    DRY_RUN =>
        /\ OverseerrCalls = {}
        /\ fwd # NoForward =>
              IF OverseerrUnconfigured
              THEN fwd.kind = "raise" /\ fwd.exc = "HTTPException" /\ fwd.status = 500
              ELSE fwd = DryRunEcho

\* A series import item echoed under dry-run, season field included.
C6_Witness ==
    /\ DRY_RUN
    /\ endpoint = "series_import"
    /\ DEFAULT_TV_SEASONS = "first"
    /\ fwd.kind = "return"
    /\ fwd.value.would_request.mediaId \in TmdbIds
    /\ fwd.value.would_request.seasons = SeasonsFirst

\* The seasons field of one request body agrees with the season policy.
SeasonsMatchPolicy(p) ==
    IF p.mediaType = "tv" /\ DEFAULT_TV_SEASONS = "all"
    THEN "seasons" \in DOMAIN p /\ p.seasons = SeasonsAll
    ELSE IF p.mediaType = "tv" /\ DEFAULT_TV_SEASONS = "first"
    THEN "seasons" \in DOMAIN p /\ p.seasons = SeasonsFirst
    ELSE "seasons" \notin DOMAIN p

\* C8: every request body the forwarder builds (sent, or echoed under
\* dry-run) is "tv" for the series routes and "movie" for the movie routes;
\* a tv body carries seasons = "all" under policy "all", seasons = [1] under
\* policy "first" and no seasons field under any other policy; a movie body
\* never carries a seasons field.
C8_SeasonDirective ==
    /\ \A k \in OverseerrCalls :
          /\ net[k].payload.mediaType = MediaTypeOf(endpoint)
          /\ SeasonsMatchPolicy(net[k].payload)
    /\ (fwd.kind = "return" /\ "dry_run" \in DOMAIN fwd.value) =>
          /\ fwd.value.would_request.mediaType = MediaTypeOf(endpoint)
          /\ SeasonsMatchPolicy(fwd.value.would_request)

\* A series request was sent with seasons = [1].
C8_Witness ==
    \E k \in OverseerrCalls :
        /\ DEFAULT_TV_SEASONS = "first"
        /\ net[k].payload.mediaType = "tv"
        /\ net[k].payload.seasons = SeasonsFirst

\* The bridge returned a mapping / returned "no mapping" on its last call.
BridgeMapped == bridged # NoBridge /\ bridged.out.kind = "return" /\ bridged.out.value.t = "int"
BridgeUnmapped == bridged # NoBridge /\ bridged.out.kind = "return" /\ bridged.out.value.t = "null"

\* The namespace-B identifier the request or the k-th item carries.
OriginalTvdbId(k) ==
    IF endpoint = "add_series" THEN PyInt(AddId(endpoint, body)).n
    ELSE PyInt(IdOf(endpoint, items[k])).n

\* C7: on series add and on every item of series import the forwarder is
\* entered only after the bridge returned a mapping for that same tvdb id;
\* the mediaId forwarded (sent or echoed) is that mapping; every request to
\* the media-request service follows a find call of the same item; when the
\* bridge returns no mapping no forward call is made (the add answers 400,
\* the import records a failed result for the item); and what the response
\* reports as tvdbId is the identifier the caller sent.
C7_TranslateBeforeForward ==
    endpoint \in {"add_series", "series_import"} =>
        /\ (pc \in {"forward", "post_wait"} \/ fwd # NoForward) =>
              /\ BridgeMapped
              /\ bridged.id = PyInt(tvdb_id).n
              /\ tmdb_id = bridged.out.value
        /\ pc = "post_wait" =>
              net[Len(net)].payload.mediaId = bridged.out.value.n
        /\ (fwd.kind = "return" /\ "dry_run" \in DOMAIN fwd.value) =>
              fwd.value.would_request.mediaId = bridged.out.value.n
        /\ \A k \in OverseerrCalls :
              /\ net[k].payload.mediaId \in TmdbIds
              /\ \E j \in FindCalls :
                    /\ j < k
                    /\ net[j].item = net[k].item
                    /\ net[j].id = OriginalTvdbId(net[k].item)
        /\ BridgeUnmapped =>
              /\ fwd = NoForward
              /\ pc \notin {"forward", "post_wait"}
              /\ IF endpoint = "add_series"
                 THEN /\ pc = "done" /\ response.status = 400
                      /\ OverseerrCalls = {}
                 ELSE /\ pc \in {"loop", "done"}
                      /\ results[idx - 1] =
                            [ok |-> FALSE, tvdbId |-> bridged.id,
                             msg |-> "tvdb->tmdb conversion failed"]
                      /\ \A k \in OverseerrCalls : net[k].item # idx - 1
        /\ (endpoint = "add_series" /\ pc = "done" /\ response.status = 200) =>
              response.body.tvdbId = OriginalTvdbId(0)
        /\ (endpoint = "series_import" /\ pc = "done" /\ response.status = 200) =>
              \A k \in 1..Len(response.body.results) :
                  "tvdbId" \in DOMAIN response.body.results[k] =>
                      response.body.results[k].tvdbId = OriginalTvdbId(k)

\* Series add of tvdbId 5 which the bridge mapped to 1396: the request sent
\* carries mediaId 1396 and the response reports tvdbId 5.
C7_Witness ==
    /\ endpoint = "add_series"
    /\ pc = "done"
    /\ response.status = 200
    /\ response.body.tvdbId = 5
    /\ bridged.id = 5
    /\ \E k \in OverseerrCalls : net[k].payload.mediaId = 1396

\* The outcome recorded for the k-th item agrees with the item.
OutcomeOf(k) ==
    LET id == IdOf(endpoint, items[k])
    IN  IF ~Truthy(id)
        THEN results[k] = MissingResult(endpoint, items[k])
        ELSE /\ K1(endpoint) \in DOMAIN results[k]
             /\ results[k][K1(endpoint)] = PyInt(id).n
             /\ results[k].ok =>
                   \/ DRY_RUN
                   \/ \E j \in OverseerrCalls : net[j].item = k

\* C9: within one import call the outbound calls are made in item order,
\* those of item i before any of item i+1; the find call of a series item
\* precedes its request to the media-request service, and each item makes at
\* most one of each; the i-th result is the outcome of the i-th item; the
\* summary counts add up to the number of items.
C9_SequentialOrder ==
    (InItemLoop \/ (endpoint \in ImportEndpoints /\ pc = "done" /\ response.status = 200)) =>
        /\ \A j, k \in 1..Len(net) : j < k =>
              /\ net[j].item <= net[k].item
              /\ (net[j].item = net[k].item) =>
                    (net[j].svc = "tmdb.find" /\ net[k].svc = "overseerr.request")
        /\ \A k \in 1..Len(net) : net[k].item <= idx /\ net[k].item >= 1
        /\ pc \in {"loop", "done"} => \A k \in 1..Len(net) : net[k].item < idx
        /\ Len(results) = idx - 1
        /\ \A k \in 1..Len(results) : OutcomeOf(k)
        /\ pc = "done" =>
              /\ response.body = ImportSummary(results)
              /\ Len(response.body.results) = Len(items)
              /\ response.body.imported + response.body.failed = Len(items)

\* A two-item series import: the first item imported, the second failed at
\* the media-request service; four outbound calls in item order.
C9_Witness ==
    /\ endpoint = "series_import"
    /\ pc = "done"
    /\ response.status = 200
    /\ Len(items) = 2
    /\ Len(net) = 4
    /\ response.body.imported = 1
    /\ response.body.failed = 1
    /\ response.body.results[1].ok
    /\ ~response.body.results[2].ok

\* C1: an import call that passed the secret and mode checks always answers
\* 200 with one result per item and imported + failed = number of items,
\* whatever the items hold and whatever the outbound calls do.
C1_BatchIsolation ==
    (endpoint \in ImportEndpoints /\ pc = "done" /\ response.status \notin {401, 404}) =>
        /\ response.status = 200
        /\ response.body.kind = "import"
        /\ Len(response.body.results) = Len(items)
        /\ response.body.imported + response.body.failed = Len(items)

\* C3: tmdb_from_tvdb returns "no mapping" when TMDB_API_KEY is unset (without
\* a lookup), when the metadata service reports no match and when it answers
\* 404; it raises only on another non-2xx answer or a connection failure; it
\* makes one lookup per call when the key is set.
C3_BridgeOutcome ==
    bridged # NoBridge =>
        /\ TMDB_API_KEY = "" =>
              /\ bridged.out = [kind |-> "return", value |-> JNull]
              /\ bridged.reply = NoReply
              /\ FindCalls = {}
        /\ TMDB_API_KEY # "" =>
              /\ bridged.reply # NoReply
              /\ FindCalls # {}
              /\ LET last == CHOOSE k \in FindCalls : \A j \in FindCalls : j <= k
                 IN  /\ net[last].id = bridged.id
                     /\ Cardinality({k \in FindCalls : net[k].item = net[last].item}) = 1
              /\ (bridged.reply.kind = "http" /\ bridged.reply.status = 404) =>
                    bridged.out = [kind |-> "return", value |-> JNull]
              /\ bridged.out.kind = "raise" =>
                    \/ bridged.reply.kind = "error"
                    \/ bridged.reply.status \notin 200..299 /\ bridged.reply.status # 404

====
